---- MODULE Spec2Model ----
(***************************************************************************)
(* Model of database/generate_textures.py of ExoExplorer: classification   *)
(* of an exoplanet record, palette and resolution selection, the layer     *)
(* renderers and the batch that renders and stores two textures per        *)
(* record.                                                                 *)
(*                                                                         *)
(* Numbers.  mass and radius are fixed-point numbers counted in tenths     *)
(* (radius 1.5 is 15, mass 9.6 is 96); temperatures are whole Kelvin.      *)
(* density = mass / radius^3 is kept as an exact fraction <<num, den>> and *)
(* compared by cross-multiplication, so a comparison at a threshold is     *)
(* decided exactly as the quotient decides it.                             *)
(***************************************************************************)
EXTENDS Integers, Sequences, FiniteSets, TLC

VARIABLES
    pc,           \* position of the program
    exoplanet,    \* the record being processed: a function from the fields it has
    planet_type,  \* what classify_planet returned (or the exception it raised)
    high_call,    \* the call of generate_planet_texture: its locals and its result
    low_call,     \* the call of generate_simple_texture: its locals and its result
    canvas,       \* the image a layer renderer works on: its size and its pixels
    canvas_in,    \* that image as it was when the renderer was called
    overlay,      \* the RGBA overlay of draw_clouds
    frame,        \* the arguments and the loop locals of the running renderer
    limit,        \* the limit argument of generate_and_store_textures: None or <<n>>
    collection,   \* the documents of the collection, in the order find returns them
    exoplanets,   \* the list generate_and_store_textures fetched
    index,        \* the position of the batch loop in that list (0 before the loop)
    update_calls, \* the update_one calls issued so far, in order
    errors,       \* the exceptions the handler of the loop caught, in order
    outcome,      \* how generate_and_store_textures ended: "", "completed" or "raised"
    trig,         \* the values math.sin and math.cos have returned: angle -> value
    noise_args,   \* the arguments simple_perlin_noise is called with
    samples,      \* the values simple_perlin_noise returned for them, in order
    rng           \* the module-level generator of random: its seed and the calls made

vars ==
    <<pc, exoplanet, planet_type, high_call, low_call, canvas, canvas_in, overlay, frame,
      limit, collection, exoplanets, index, update_calls, errors, outcome,
      trig, noise_args, samples, rng>>

\* The variables of the record-level calls, and those of the layer renderers.
recordVars == <<exoplanet, planet_type, high_call, low_call>>
layerVars == <<canvas, canvas_in, overlay, frame>>

\* The variables of the batch.
batchVars == <<limit, collection, exoplanets, index, update_calls, errors, outcome>>

\* The variables of the calls of simple_perlin_noise.
noiseVars == <<trig, noise_args, samples>>

(***************************************************************************)
(* Program constants                                                       *)
(***************************************************************************)
EARTH_MASS == 10          \* 1.0, in tenths
EARTH_RADIUS == 10        \* 1.0, in tenths
DEFAULT_TEMP == 300       \* the literal of "... or 300"

HOT_JUPITER == "hot_jupiter"
WARM_NEPTUNE == "warm_neptune"
ICE_GIANT == "ice_giant"
SUPER_EARTH == "super_earth"
TERRESTRIAL == "terrestrial"
MINI_NEPTUNE == "mini_neptune"

PlanetType ==
    {HOT_JUPITER, WARM_NEPTUNE, ICE_GIANT, SUPER_EARTH, TERRESTRIAL, MINI_NEPTUNE}

\* What a call leaves in its result when it raises, or returns no value.
ZeroDivisionError == "ZeroDivisionError"
NoResult == "no_result"

(***************************************************************************)
(* dict.get and Python's "or"                                              *)
(* A looked-up value is <<v>>; a missing key gives None, the empty tuple.  *)
(***************************************************************************)
None == << >>

Fields == {"mass", "radius", "temp_calculated", "temp_measured"}

get(d, key) == IF key \in DOMAIN d THEN <<d[key]>> ELSE None

get_default(d, key, default) == IF key \in DOMAIN d THEN d[key] ELSE default

\* Python truth of a number or None: None and 0 are false.
Truthy(v) == v # None /\ v # <<0>>

Or(a, b) == IF Truthy(a) THEN a ELSE b

\* exoplanet.get('temp_calculated') or exoplanet.get('temp_measured') or 300
temp_of(d) ==
    Or(Or(get(d, "temp_calculated"), get(d, "temp_measured")), <<DEFAULT_TEMP>>)[1]

(***************************************************************************)
(* classify_planet                                                         *)
(***************************************************************************)
Cube(x) == x * x * x

\* mass / (radius ** 3) for mass and radius in tenths: (m/10) / (r^3/1000).
Density(mass, radius) == <<100 * mass, Cube(radius)>>

\* q < k/10 and q >= k/10 for a fraction q = <<num, den>>, den # 0.
FracLt(q, k) ==
    IF q[2] > 0 THEN 10 * q[1] < k * q[2] ELSE 10 * q[1] > k * q[2]

FracGe(q, k) == ~FracLt(q, k)

\* Mutant: the density threshold of rule 1 widened from 0.4 to 0.5.
IsHotJupiter_Wide(radius, temp, density) ==
    radius > 80 /\ temp > 1000 /\ FracLt(density, 5)

IsHotJupiter(radius, temp, density) ==
    radius > 80 /\ temp > 1000 /\ FracLt(density, 4)

IsWarmNeptune(radius, temp, density) ==
    30 < radius /\ radius < 80 /\ 500 < temp /\ temp < 1000 /\ FracLt(density, 8)

IsIceGiant(radius, temp, density) ==
    radius > 30 /\ temp < 500 /\ FracLt(density, 8)

IsMiniNeptune(radius, temp, density) ==
    15 < radius /\ radius < 40 /\ FracLt(density, 12)

\* Mutant: the SuperEarth test admitting radius 1.5 itself.
IsSuperEarth_From15(radius, temp, density) ==
    radius >= 15 /\ FracGe(density, 12)

IsSuperEarth(radius, temp, density) ==
    radius > 15 /\ FracGe(density, 12)

\* Mutant: the final "return PlanetType.TERRESTRIAL" dropped; the function
\* then falls off its end and returns no category.
RuleChain_NoFallback(radius, temp, density) ==
    IF IsHotJupiter(radius, temp, density) THEN HOT_JUPITER
    ELSE IF IsWarmNeptune(radius, temp, density) THEN WARM_NEPTUNE
    ELSE IF IsIceGiant(radius, temp, density) THEN ICE_GIANT
    ELSE IF IsMiniNeptune(radius, temp, density) THEN MINI_NEPTUNE
    ELSE IF IsSuperEarth(radius, temp, density) THEN SUPER_EARTH
    ELSE NoResult

\* Mutant: the MiniNeptune test moved in front of the IceGiant test.
RuleChain_MiniFirst(radius, temp, density) ==
    IF IsHotJupiter(radius, temp, density) THEN HOT_JUPITER
    ELSE IF IsWarmNeptune(radius, temp, density) THEN WARM_NEPTUNE
    ELSE IF IsMiniNeptune(radius, temp, density) THEN MINI_NEPTUNE
    ELSE IF IsIceGiant(radius, temp, density) THEN ICE_GIANT
    ELSE IF IsSuperEarth(radius, temp, density) THEN SUPER_EARTH
    ELSE TERRESTRIAL

\* The chain of ifs of lines 42-57, first match returns.
RuleChain(radius, temp, density) ==
    IF IsHotJupiter(radius, temp, density) THEN HOT_JUPITER
    ELSE IF IsWarmNeptune(radius, temp, density) THEN WARM_NEPTUNE
    ELSE IF IsIceGiant(radius, temp, density) THEN ICE_GIANT
    ELSE IF IsMiniNeptune(radius, temp, density) THEN MINI_NEPTUNE
    ELSE IF IsSuperEarth(radius, temp, density) THEN SUPER_EARTH
    ELSE TERRESTRIAL

\* Line 38: the temp of classify_planet.
classify_temp(d) == temp_of(d)

classify_planet(d) ==
    LET mass == get_default(d, "mass", EARTH_MASS)
        radius == get_default(d, "radius", EARTH_RADIUS)
        temp == classify_temp(d)
    IN  IF Cube(radius) = 0
        THEN ZeroDivisionError
        ELSE RuleChain(radius, temp, Density(mass, radius))

(***************************************************************************)
(* get_scientific_colors                                                   *)
(* A hex colour is the tuple of its six digits: '#5a3820' with the '#'     *)
(* stripped is <<5, 10, 3, 8, 2, 0>>.  A palette is the tuple              *)
(* <<base, shadow, highlight>>: colors[0], colors[1], colors[2] of the     *)
(* code are colors[1], colors[2], colors[3] here.  A value of              *)
(* random.random() is counted in hundredths: 0.7 is 70.                    *)
(***************************************************************************)
hex_to_rgb(h) == <<16 * h[1] + h[2], 16 * h[3] + h[4], 16 * h[5] + h[6]>>

Palette(base, shadow, highlight) ==
    <<hex_to_rgb(base), hex_to_rgb(shadow), hex_to_rgb(highlight)>>

GrayPalette == <<<<160, 160, 160>>, <<128, 128, 128>>, <<192, 192, 192>>>>

\* Mutant: the two temperature fields read in the other order.
colors_temp_MeasuredFirst(d) ==
    Or(Or(get(d, "temp_measured"), get(d, "temp_calculated")), <<DEFAULT_TEMP>>)[1]

\* Line 61: the temp of get_scientific_colors.
colors_temp(d) == temp_of(d)

HotJupiterColors(temp) ==
    IF temp > 2000 THEN
        Palette(<<5, 10, 3, 8, 2, 0>>, <<3, 13, 2, 5, 1, 0>>, <<8, 10, 5, 5, 3, 0>>)   \* #5a3820 #3d2510 #8a5530
    ELSE IF temp > 1500 THEN
        Palette(<<6, 10, 4, 5, 3, 0>>, <<4, 10, 3, 0, 2, 0>>, <<9, 10, 6, 5, 4, 0>>)   \* #6a4530 #4a3020 #9a6540
    ELSE
        Palette(<<7, 10, 5, 8, 4, 0>>, <<5, 10, 4, 0, 3, 0>>, <<10, 10, 7, 8, 6, 0>>)   \* #7a5840 #5a4030 #aa7860

\* Mutant: the WarmNeptune left to the fallback of line 127.
WarmNeptuneColors_Fallback == <<<<160, 160, 160>>, <<128, 128, 128>>, <<192, 192, 192>>>>

WarmNeptuneColors ==
    Palette(<<8, 11, 12, 5, 14, 8>>, <<6, 11, 10, 3, 13, 0>>, <<10, 10, 14, 5, 15, 15>>)   \* #8bc5e8 #6ba3d0 #aae5ff

IceGiantColors(temp) ==
    IF temp < 100 THEN
        Palette(<<6, 10, 8, 15, 12, 5>>, <<4, 10, 6, 15, 10, 5>>, <<8, 10, 10, 15, 14, 5>>)   \* #6a8fc5 #4a6fa5 #8aafe5
    ELSE
        Palette(<<9, 10, 13, 8, 14, 5>>, <<7, 10, 11, 8, 12, 5>>, <<11, 10, 15, 8, 15, 15>>)   \* #9ad8e5 #7ab8c5 #baf8ff

MiniNeptuneColors(cloudiness) ==
    IF cloudiness > 70 THEN
        Palette(<<14, 5, 15, 5, 15, 15>>, <<12, 5, 13, 5, 14, 5>>, <<15, 15, 15, 15, 15, 15>>)   \* #e5f5ff #c5d5e5 #ffffff
    ELSE IF cloudiness > 40 THEN
        Palette(<<10, 10, 13, 5, 15, 5>>, <<8, 10, 11, 5, 13, 5>>, <<12, 10, 15, 5, 15, 15>>)   \* #aad5f5 #8ab5d5 #caf5ff
    ELSE
        Palette(<<8, 10, 10, 15, 11, 5>>, <<6, 10, 8, 15, 10, 5>>, <<10, 10, 12, 15, 13, 5>>)   \* #8aafb5 #6a8fa5 #aacfd5

SuperEarthColors(temp, variation) ==
    IF temp > 700 THEN
        Palette(<<15, 15, 7, 10, 4, 0>>, <<14, 8, 5, 10, 2, 0>>, <<15, 15, 10, 10, 7, 0>>)   \* #ff7a40 #e85a20 #ffaa70
    ELSE IF temp > 400 THEN
        Palette(<<13, 8, 11, 0, 9, 0>>, <<11, 8, 9, 0, 7, 0>>, <<15, 8, 13, 0, 11, 0>>)   \* #d8b090 #b89070 #f8d0b0
    ELSE IF temp > 250 THEN
        IF variation < 40 THEN
            Palette(<<4, 13, 7, 10, 10, 10>>, <<3, 13, 6, 10, 9, 10>>, <<6, 13, 9, 10, 12, 10>>)   \* #4d7aaa #3d6a9a #6d9aca
        ELSE IF variation < 70 THEN
            Palette(<<6, 10, 9, 10, 7, 10>>, <<5, 10, 8, 10, 6, 10>>, <<8, 10, 11, 10, 9, 10>>)   \* #6a9a7a #5a8a6a #8aba9a
        ELSE
            Palette(<<10, 10, 9, 10, 7, 10>>, <<8, 10, 7, 10, 5, 10>>, <<12, 10, 11, 10, 9, 10>>)   \* #aa9a7a #8a7a5a #caba9a
    ELSE
        Palette(<<14, 5, 15, 5, 15, 15>>, <<12, 5, 13, 5, 14, 5>>, <<15, 15, 15, 15, 15, 15>>)   \* #e5f5ff #c5d5e5 #ffffff

\* Mutant: the temperate Terrestrial given its first palette whatever the draw.
TerrestrialColors_NoDraw(temp, variation) ==
    IF temp > 600 THEN
        Palette(<<15, 8, 14, 0, 11, 0>>, <<13, 8, 12, 0, 9, 0>>, <<15, 15, 15, 15, 13, 0>>)
    ELSE IF temp > 350 THEN
        Palette(<<14, 8, 11, 0, 8, 0>>, <<12, 8, 9, 0, 6, 0>>, <<15, 15, 13, 0, 10, 0>>)
    ELSE IF temp > 200 THEN
        Palette(<<5, 13, 8, 10, 11, 10>>, <<4, 13, 7, 10, 10, 10>>, <<7, 13, 10, 10, 13, 13>>)
    ELSE IF temp > 150 THEN
        Palette(<<14, 8, 9, 10, 7, 0>>, <<12, 8, 7, 10, 5, 0>>, <<15, 15, 11, 10, 9, 0>>)
    ELSE
        Palette(<<15, 5, 15, 15, 15, 15>>, <<13, 5, 14, 5, 15, 5>>, <<15, 15, 15, 15, 15, 15>>)

TerrestrialColors(temp, variation) ==
    IF temp > 600 THEN
        Palette(<<15, 8, 14, 0, 11, 0>>, <<13, 8, 12, 0, 9, 0>>, <<15, 15, 15, 15, 13, 0>>)   \* #f8e0b0 #d8c090 #ffffd0
    ELSE IF temp > 350 THEN
        Palette(<<14, 8, 11, 0, 8, 0>>, <<12, 8, 9, 0, 6, 0>>, <<15, 15, 13, 0, 10, 0>>)   \* #e8b080 #c89060 #ffd0a0
    ELSE IF temp > 200 THEN
        IF variation < 30 THEN
            Palette(<<5, 13, 8, 10, 11, 10>>, <<4, 13, 7, 10, 10, 10>>, <<7, 13, 10, 10, 13, 13>>)   \* #5d8aba #4d7aaa #7daadd
        ELSE IF variation < 60 THEN
            Palette(<<7, 10, 9, 10, 8, 10>>, <<6, 10, 8, 10, 7, 10>>, <<9, 10, 11, 10, 10, 10>>)   \* #7a9a8a #6a8a7a #9abaaa
        ELSE
            Palette(<<11, 10, 10, 10, 8, 10>>, <<9, 10, 8, 10, 6, 10>>, <<13, 10, 12, 10, 10, 10>>)   \* #baaa8a #9a8a6a #dacaaa
    ELSE IF temp > 150 THEN
        Palette(<<14, 8, 9, 10, 7, 0>>, <<12, 8, 7, 10, 5, 0>>, <<15, 15, 11, 10, 9, 0>>)   \* #e89a70 #c87a50 #ffba90
    ELSE
        Palette(<<15, 5, 15, 15, 15, 15>>, <<13, 5, 14, 5, 15, 5>>, <<15, 15, 15, 15, 15, 15>>)   \* #f5ffff #d5e5f5 #ffffff

\* rnd is the value random.random() returns in the branches that draw one.
get_scientific_colors(d, ptype, rnd) ==
    LET temp == colors_temp(d)
    IN  IF ptype = HOT_JUPITER THEN HotJupiterColors(temp)
        ELSE IF ptype = WARM_NEPTUNE THEN WarmNeptuneColors
        ELSE IF ptype = ICE_GIANT THEN IceGiantColors(temp)
        ELSE IF ptype = MINI_NEPTUNE THEN MiniNeptuneColors(rnd)
        ELSE IF ptype = SUPER_EARTH THEN SuperEarthColors(temp, rnd)
        ELSE IF ptype = TERRESTRIAL THEN TerrestrialColors(temp, rnd)
        ELSE GrayPalette

(***************************************************************************)
(* get_texture_resolution                                                  *)
(***************************************************************************)
\* Mutant: "radius > 10" written "radius >= 10".
get_texture_resolution_Ge(radius) ==
    IF ~Truthy(radius) THEN 256
    ELSE IF radius[1] >= 100 THEN 512
    ELSE IF radius[1] > 50 THEN 256
    ELSE IF radius[1] > 20 THEN 128
    ELSE 64

\* Mutant: the "if not radius" test dropped, a missing radius read as 0.
get_texture_resolution_NoDefault(radius) ==
    IF Truthy(radius) /\ radius[1] > 100 THEN 512
    ELSE IF Truthy(radius) /\ radius[1] > 50 THEN 256
    ELSE IF Truthy(radius) /\ radius[1] > 20 THEN 128
    ELSE 64

\* radius is what exoplanet.get('radius') gave: None or <<tenths>>.
get_texture_resolution(radius) ==
    IF ~Truthy(radius) THEN 256
    ELSE IF radius[1] > 100 THEN 512
    ELSE IF radius[1] > 50 THEN 256
    ELSE IF radius[1] > 20 THEN 128
    ELSE 64

(***************************************************************************)
(* The layers of a render.  An image is described by its size, the colour  *)
(* it was filled with and the layer calls applied to it, in order.         *)
(* turbulence, density and the blur radius are counted in hundredths.      *)
(***************************************************************************)
Layer(op, param, pattern, cols) ==
    [op |-> op, param |-> param, pattern |-> pattern, colors |-> cols]

\* draw_atmospheric_bands paints colors[1] and colors[2] alternately.
Bands(colors, turbulence) ==
    Layer("draw_atmospheric_bands", turbulence, "", <<colors[2], colors[3]>>)

\* draw_clouds paints colors[1] on the overlay, whatever the pattern.
Clouds(colors, density, pattern) ==
    Layer("draw_clouds", density, pattern, <<colors[2]>>)

Noise(intensity) == Layer("add_noise", intensity, "", << >>)

GaussianBlur == Layer("GaussianBlur", 50, "", << >>)

\* Line 239: the temp of generate_planet_texture.
texture_temp(d) == temp_of(d)

\* Mutant: the spots of a HotJupiter drawn on a draw above 0.7 only.
HotJupiterRecipe_RandomClouds(colors, rnd) ==
    <<Bands(colors, 150)>>
        \o (IF rnd > 70 THEN <<Clouds(colors, 40, "spots")>> ELSE << >>)
        \o <<Noise(25)>>

\* Mutant: the bands of a HotJupiter drawn on a draw above 0.5 only.
HotJupiterRecipe_RandomBands(colors, rnd) ==
    (IF rnd > 50 THEN <<Bands(colors, 150)>> ELSE << >>)
        \o <<Clouds(colors, 40, "spots"), Noise(25)>>

\* Lines 243-246.  rnd is unused: the branch draws no random number.
HotJupiterRecipe(colors, rnd) ==
    <<Bands(colors, 150), Clouds(colors, 40, "spots"), Noise(25)>>

\* Mutant: the cold Terrestrial given the wisps of the temperate one.
TerrestrialRecipe_ColdWisps(colors, temp) ==
    IF temp > 600 THEN <<Clouds(colors, 80, "wisps"), Noise(18)>>
    ELSE IF temp < 350 THEN <<Clouds(colors, 25, "wisps"), Noise(20)>>
    ELSE IF temp > 150 THEN <<Noise(25)>>
    ELSE <<Noise(15)>>

\* Lines 275-285.
TerrestrialRecipe(colors, temp) ==
    IF temp > 600 THEN <<Clouds(colors, 80, "wisps"), Noise(18)>>
    ELSE IF 200 < temp /\ temp < 350 THEN <<Clouds(colors, 25, "wisps"), Noise(20)>>
    ELSE IF temp > 150 THEN <<Noise(25)>>
    ELSE <<Noise(15)>>

\* Lines 243-285; rnd is the value random.random() returns at line 255 or 260.
Recipe(ptype, colors, temp, rnd) ==
    IF ptype = HOT_JUPITER THEN HotJupiterRecipe(colors, rnd)
    ELSE IF ptype = WARM_NEPTUNE THEN
        <<Bands(colors, 100), Clouds(colors, 30, "bands"), Noise(20)>>
    ELSE IF ptype = ICE_GIANT THEN
        <<Bands(colors, 50)>>
            \o (IF rnd > 70 THEN <<Clouds(colors, 20, "spots")>> ELSE << >>)
            \o <<Noise(15)>>
    ELSE IF ptype = MINI_NEPTUNE THEN
        (IF rnd > 50 THEN <<Bands(colors, 70)>> ELSE << >>)
            \o <<Clouds(colors, 40, "wisps"), Noise(18)>>
    ELSE IF ptype = SUPER_EARTH THEN
        IF temp > 700 THEN <<Bands(colors, 80), Noise(30)>>
        ELSE IF 250 < temp /\ temp < 400 THEN <<Clouds(colors, 30, "wisps"), Noise(20)>>
        ELSE <<Noise(22)>>
    ELSE IF ptype = TERRESTRIAL THEN TerrestrialRecipe(colors, temp)
    ELSE << >>

(***************************************************************************)
(* generate_planet_texture and generate_simple_texture                     *)
(* A call is the record of its locals when it ends: state is "returned"    *)
(* or "raised"; a local never assigned holds the No... value.              *)
(***************************************************************************)
NoColors == <<<<0, 0, 0>>, <<0, 0, 0>>, <<0, 0, 0>>>>

NoImage == [width |-> 0, height |-> 0, fill |-> <<0, 0, 0>>, layers |-> << >>]

NotCalled ==
    [state |-> "not_called", size |-> 0, planet_type |-> NoResult,
     colors |-> NoColors, temp |-> 0, temp_classify |-> 0, temp_colors |-> 0,
     img |-> NoImage]

\* Mutant: the canvas allocated black, as Image.new does when given no colour.
NewImage_NoColor(size, color) ==
    [width |-> size, height |-> size, fill |-> <<0, 0, 0>>, layers |-> << >>]

\* Image.new('RGB', (size, size), color)
NewImage(size, color) ==
    [width |-> size, height |-> size, fill |-> color, layers |-> << >>]

ApplyLayers(img, layers) == [img EXCEPT !.layers = @ \o layers]

\* Mutant: the image blurred before the recipe's layers are applied.
RenderLayers_BlurFirst(img, recipe) == ApplyLayers(img, <<GaussianBlur>> \o recipe)

\* Lines 243-287: the layers of the recipe, then the filter of line 287.
RenderLayers(img, recipe) == ApplyLayers(img, recipe \o <<GaussianBlur>>)

generate_planet_texture(d, resolution, rnd_colors, rnd_recipe) ==
    LET size == Or(resolution, <<get_texture_resolution(get(d, "radius"))>>)[1]
        ptype == classify_planet(d)
        colors == get_scientific_colors(d, ptype, rnd_colors)
        temp == texture_temp(d)
        img == RenderLayers(NewImage(size, colors[1]),
                            Recipe(ptype, colors, temp, rnd_recipe))
    IN  IF ptype = ZeroDivisionError
        THEN [NotCalled EXCEPT !.state = "raised", !.size = size,
                               !.planet_type = ptype, !.temp_classify = classify_temp(d)]
        ELSE [state |-> "returned", size |-> size, planet_type |-> ptype,
              colors |-> colors, temp |-> temp, temp_classify |-> classify_temp(d),
              temp_colors |-> colors_temp(d), img |-> img]

ICON_SIZE == 32

\* Lines 301-304: one filled ellipse per r = 16, 15, ... 1, each drawn over the
\* ones before; alpha = r/16 is exact, and int() of the non-negative sum is
\* the integer quotient.
GradientColor(colors, r, half) ==
    [i \in 1 .. 3 |-> (colors[1][i] * r + colors[2][i] * (half - r)) \div half]

Gradient(colors, size) ==
    LET half == size \div 2
    IN  [k \in 1 .. half |->
            Layer("ellipse", half + 1 - k, "", <<GradientColor(colors, half + 1 - k, half)>>)]

generate_simple_texture(d, rnd_colors) ==
    LET size == ICON_SIZE
        ptype == classify_planet(d)
        colors == get_scientific_colors(d, ptype, rnd_colors)
        img == ApplyLayers(NewImage(size, colors[1]), Gradient(colors, size))
    IN  IF ptype = ZeroDivisionError
        THEN [NotCalled EXCEPT !.state = "raised", !.size = size,
                               !.planet_type = ptype, !.temp_classify = classify_temp(d)]
        ELSE [state |-> "returned", size |-> size, planet_type |-> ptype,
              colors |-> colors, temp |-> 0, temp_classify |-> classify_temp(d),
              temp_colors |-> colors_temp(d), img |-> img]

(***************************************************************************)
(* Pixels.  An image is [width, height, px], px a function from the        *)
(* positions <<x, y>>, 0 <= x < width, 0 <= y < height, to <<r, g, b>>.    *)
(***************************************************************************)
Positions(width, height) == (0 .. width - 1) \X (0 .. height - 1)

NoCanvas == [width |-> 0, height |-> 0, px |-> << >>]

NoFrame ==
    [fn |-> "", intensity |-> 0, colors |-> NoColors, density |-> 0, pattern |-> "",
     x |-> 0, y |-> 0, bands |-> 0, spots |-> 0, i |-> 0]

LayersIdle ==
    /\ canvas = NoCanvas
    /\ canvas_in = NoCanvas
    /\ overlay = << >>
    /\ frame = NoFrame

\* The generator is not followed: a draw is any value it can return.
RngIdle == rng = [seed |-> 0, drawn |-> 0]

\* The unit of the values of math.sin and math.cos: 1.0 is TrigUnit.
TrigUnit == 2

\* No batch is running.
BatchIdle ==
    /\ limit = None
    /\ collection = << >>
    /\ exoplanets = << >>
    /\ index = 0
    /\ update_calls = << >>
    /\ errors = << >>
    /\ outcome = ""

\* simple_perlin_noise has not been called; math.sin and math.cos are known
\* at 0, where they are exact.
NoArgs == [x |-> 0, y |-> 0, scale |-> 0, octaves |-> 0]

KnownTrig == [sin |-> [a \in {0} |-> 0], cos |-> [a \in {0} |-> TrigUnit]]

NoiseIdle ==
    /\ trig = KnownTrig
    /\ noise_args = NoArgs
    /\ samples = << >>

Min(a, b) == IF a < b THEN a ELSE b
Max(a, b) == IF a > b THEN a ELSE b

(***************************************************************************)
(* add_noise                                                               *)
(***************************************************************************)
\* Mutant: the upper clamp min(255, ...) left out.
Clamp_NoUpper(v) == Max(0, v)

\* max(0, min(255, v))
Clamp(v) == Max(0, Min(255, v))

\* Lines 153-157: the one draw of the pixel is added to its three channels.
NoisyPixel(pixel, noise) ==
    <<Clamp(pixel[1] + noise), Clamp(pixel[2] + noise), Clamp(pixel[3] + noise)>>

\* One iteration of the loops of lines 149-157, at pixel (frame.x, frame.y),
\* with its draw random.randint(-intensity, intensity).
AddNoiseStep ==
    /\ pc = "add_noise"
    /\ frame.y < canvas.height
    /\ \E noise \in (0 - frame.intensity) .. frame.intensity :
            canvas' = [canvas EXCEPT !.px[<<frame.x, frame.y>>] = NoisyPixel(@, noise)]
    /\ frame' = IF frame.x + 1 < canvas.width
                THEN [frame EXCEPT !.x = @ + 1]
                ELSE [frame EXCEPT !.x = 0, !.y = @ + 1]
    /\ UNCHANGED <<batchVars, noiseVars, rng, pc, recordVars, canvas_in, overlay>>

\* range(height) is exhausted: add_noise returns.
AddNoiseReturn ==
    /\ pc = "add_noise"
    /\ frame.y >= canvas.height
    /\ pc' = "add_noise_returned"
    /\ UNCHANGED <<batchVars, noiseVars, rng, recordVars, layerVars>>

(***************************************************************************)
(* draw_clouds                                                             *)
(* An overlay pixel is <<r, g, b, alpha>>.  ImageDraw truncates the        *)
(* corners it is given to whole pixels and fills the rectangle or ellipse  *)
(* between them, both corners included, clipped to the image.              *)
(***************************************************************************)
Transparent == <<0, 0, 0, 0>>

\* colors[1] + (alpha,)
CloudColor(colors, alpha) == colors[2] \o <<alpha>>

\* The positions of the image inside the rectangle [(x0, y0), (x1, y1)].
Rectangle(img, x0, y0, x1, y1) ==
    {p \in Positions(img.width, img.height) :
        x0 <= p[1] /\ p[1] <= x1 /\ y0 <= p[2] /\ p[2] <= y1}

Fill(ov, positions, color) ==
    [p \in DOMAIN ov |-> IF p \in positions THEN color ELSE ov[p]]

\* int((random.random() * 0.4 + 0.3) * 255), the draw rnd in hundredths.
BandAlpha(rnd) == ((40 * rnd + 3000) * 255) \div 10000

\* int(0.4 * 255)
SpotAlpha == 102

\* simple_perlin_noise(x / width, y / height, 8, 2) for x = 0, in hundredths:
\* sin(0 * frequency) is 0, every term of the sum is 0 and the value is
\* (0 / max_value + 1) / 2 = 0.5.  With a width of 1 or 2 the loop
\* range(0, width, 2) visits x = 0 only.
WispNoise == 50

\* int((noise - (1 - density)) / density * 0.5 * 255), noise and density in
\* hundredths.
WispAlpha(noise, density) == ((noise - (100 - density)) * 255) \div (2 * density)

\* Lines 184-189, 198 and 209: the overlay is created transparent and the
\* loop of the pattern is entered, with its count drawn.
DrawCloudsBegin ==
    /\ pc = "draw_clouds"
    /\ overlay' = [p \in Positions(canvas.width, canvas.height) |-> Transparent]
    /\ \/ /\ frame.pattern = "bands"
          /\ \E n \in 5 .. 10 : frame' = [frame EXCEPT !.bands = n, !.i = 0]
          /\ pc' = "clouds_bands"
       \/ /\ frame.pattern = "spots"
          /\ \E n \in 3 .. 8 : frame' = [frame EXCEPT !.spots = n, !.i = 0]
          /\ pc' = "clouds_spots"
       \/ /\ frame.pattern \notin {"bands", "spots"}
          /\ frame' = [frame EXCEPT !.x = 0, !.y = 0]
          /\ pc' = "clouds_wisps"
    /\ UNCHANGED <<batchVars, noiseVars, rng, recordVars, canvas, canvas_in>>

\* Lines 190-195: strip i, from band_y = i / bands * height to band_y +
\* height / bands, over the whole width, with its alpha drawn.
CloudsBandStep ==
    /\ pc = "clouds_bands"
    /\ frame.i < frame.bands
    /\ \E rnd \in {0, 99} :
            overlay' = Fill(overlay,
                            Rectangle(canvas, 0, (frame.i * canvas.height) \div frame.bands,
                                      canvas.width,
                                      ((frame.i + 1) * canvas.height) \div frame.bands),
                            CloudColor(frame.colors, BandAlpha(rnd)))
    /\ frame' = [frame EXCEPT !.i = @ + 1]
    /\ UNCHANGED <<batchVars, noiseVars, rng, pc, recordVars, canvas, canvas_in>>

\* Lines 199-205: one spot.  Its centre is inside the image and its radius
\* is at least 10 pixels, so on an image of fewer than 10 rows and columns
\* the ellipse holds every pixel.
CloudsSpotStep ==
    /\ pc = "clouds_spots"
    /\ frame.i < frame.spots
    /\ overlay' = Fill(overlay, Positions(canvas.width, canvas.height),
                       CloudColor(frame.colors, SpotAlpha))
    /\ frame' = [frame EXCEPT !.i = @ + 1]
    /\ UNCHANGED <<batchVars, noiseVars, rng, pc, recordVars, canvas, canvas_in>>

\* Lines 209-215: the cell at (frame.x, frame.y) of the grid of step 2.
CloudsWispStep ==
    /\ pc = "clouds_wisps"
    /\ frame.y < canvas.height
    /\ overlay' =
            IF WispNoise > 100 - frame.density
            THEN Fill(overlay,
                      Rectangle(canvas, frame.x, frame.y, frame.x + 2, frame.y + 2),
                      CloudColor(frame.colors, WispAlpha(WispNoise, frame.density)))
            ELSE overlay
    /\ frame' = IF frame.x + 2 < canvas.width
                THEN [frame EXCEPT !.x = @ + 2]
                ELSE [frame EXCEPT !.x = 0, !.y = @ + 2]
    /\ UNCHANGED <<batchVars, noiseVars, rng, pc, recordVars, canvas, canvas_in>>

\* The loop of the pattern is exhausted.
CloudsLoopEnd ==
    /\ \/ pc = "clouds_bands" /\ frame.i >= frame.bands
       \/ pc = "clouds_spots" /\ frame.i >= frame.spots
       \/ pc = "clouds_wisps" /\ frame.y >= canvas.height
    /\ pc' = "clouds_paste"
    /\ UNCHANGED <<batchVars, noiseVars, rng, recordVars, layerVars>>

\* The rounded division by 255 of the paste: (v + 128 + ((v + 128) >> 8)) >> 8.
Div255(v) == (((v + 128) \div 256) + (v + 128)) \div 256

\* Mutant: the mask ignored, the overlay's colour copied over the pixel.
Blend_NoMask(out, in, alpha) == in

\* One channel of the paste through a mask: out * (255 - alpha) + in * alpha.
Blend(out, in, alpha) == Div255(out * (255 - alpha) + in * alpha)

\* Line 217: img.paste(overlay, (0, 0), overlay), the overlay's alpha the mask.
CloudsPaste ==
    /\ pc = "clouds_paste"
    /\ canvas' = [canvas EXCEPT !.px =
            [p \in DOMAIN @ |->
                [c \in 1 .. 3 |-> Blend(@[p][c], overlay[p][c], overlay[p][4])]]]
    /\ pc' = "draw_clouds_returned"
    /\ UNCHANGED <<batchVars, noiseVars, rng, recordVars, canvas_in, overlay, frame>>

(***************************************************************************)
(* generate_and_store_textures                                             *)
(* A document of the collection is [_id, record, textures]: record holds   *)
(* the measurement fields, textures what update_one last set (None before  *)
(* any write).  An update_one call is [filter, set, ok]; a caught          *)
(* exception is [_id, at, exception].                                      *)
(***************************************************************************)
\* The values of random.random() the renders of the batch draw from.
BatchDraws == {0, 99}

MemoryError == "MemoryError"
PyMongoError == "PyMongoError"

\* The classes an exception of the model can have; each derives from Exception.
ExceptionClasses == {ZeroDivisionError, MemoryError, PyMongoError}

\* img.save(buffer, format='PNG') and base64.b64encode(...).decode('utf-8'):
\* the PNG bytes of the image, then their base64 text.
image_to_base64(img) == <<"base64", <<"PNG", img>>>>

\* f"data:image/png;base64,{b64}"
DataUrl(b64) == <<"data:image/png;base64,", b64>>

\* datetime.utcnow(), as a logical time: the number of update_one calls
\* issued before this one, plus one.
utcnow == Len(update_calls) + 1

\* Lines 340-344.
update_data ==
    [texture_high_url |-> DataUrl(image_to_base64(high_call.img)),
     texture_low_url |-> DataUrl(image_to_base64(low_call.img)),
     texture_generated_at |-> utcnow]

\* Line 322: collection.find(query).limit(limit) if limit else
\* collection.find(query).  The cursor yields the documents in order.
find(coll, lim) ==
    IF Truthy(lim) THEN SubSeq(coll, 1, Min(lim[1], Len(coll))) ELSE coll

\* Mutant: the handler catches no exception.
Caught_Nothing(exception) == FALSE

\* Line 353: except Exception.
Caught(exception) == exception \in ExceptionClasses

\* Mutant: a render that raised is taken for one that returned.
Raised_Never(call) == FALSE

Raised(call) == call.state = "raised"

\* The exception a call that raised ended with: that of classify_planet, or
\* the one of the allocation of the image.
ExceptionOf(call) ==
    IF call.planet_type = ZeroDivisionError THEN ZeroDivisionError ELSE MemoryError

\* Image.new fails to allocate: the call ends with MemoryError, unless
\* classify_planet raised before it.
OutOfMemory(call) ==
    IF call.state = "raised" THEN call
    ELSE [call EXCEPT !.state = "raised", !.img = NoImage]

\* An exception raised inside the try block of lines 333-351, at the call
\* named by at: caught by the handler of lines 353-354, which prints the
\* error and lets the loop go on; otherwise it leaves the function.
Raise(exception, at) ==
    IF Caught(exception)
    THEN /\ errors' = Append(errors, [_id |-> exoplanets[index]._id, at |-> at,
                                      exception |-> exception])
         /\ pc' = "loop"
         /\ outcome' = outcome
    ELSE /\ errors' = errors
         /\ pc' = "batch_raised"
         /\ outcome' = "raised"

\* Lines 316-325: the cursor is read into a list; a failure of the store
\* leaves the function as an exception (the call is outside any try).
BatchFetch ==
    /\ pc = "batch_start"
    /\ \E available \in BOOLEAN :
            IF available
            THEN /\ exoplanets' = [k \in 1 .. Len(find(collection, limit)) |->
                                    [_id |-> find(collection, limit)[k]._id,
                                     record |-> find(collection, limit)[k].record]]
                 /\ pc' = "loop"
                 /\ outcome' = outcome
            ELSE /\ exoplanets' = exoplanets
                 /\ pc' = "batch_raised"
                 /\ outcome' = "raised"
    /\ UNCHANGED <<recordVars, layerVars, noiseVars, rng, limit, collection, index, update_calls, errors>>

\* Lines 327-331: the next element of the list.
BatchLoopNext ==
    /\ pc = "loop"
    /\ index < Len(exoplanets)
    /\ index' = index + 1
    /\ exoplanet' = exoplanets[index + 1].record
    /\ pc' = "render_high"
    /\ UNCHANGED <<planet_type, high_call, low_call, layerVars, noiseVars, rng,
                   limit, collection, exoplanets, update_calls, errors, outcome>>

\* Lines 356-357: the list is exhausted.
BatchLoopEnd ==
    /\ pc = "loop"
    /\ index >= Len(exoplanets)
    /\ outcome' = "completed"
    /\ pc' = "batch_completed"
    /\ UNCHANGED <<recordVars, layerVars, noiseVars, rng,
                   limit, collection, exoplanets, index, update_calls, errors>>

\* Lines 334-335.
BatchRenderHigh ==
    /\ pc = "render_high"
    /\ \E rnd_colors \in BatchDraws, rnd_recipe \in BatchDraws, allocated \in BOOLEAN :
            LET call == generate_planet_texture(exoplanet, None, rnd_colors, rnd_recipe)
            IN  high_call' = IF allocated THEN call ELSE OutOfMemory(call)
    /\ IF Raised(high_call')
       THEN Raise(ExceptionOf(high_call'), "generate_planet_texture")
       ELSE pc' = "render_low" /\ UNCHANGED <<errors, outcome>>
    /\ UNCHANGED <<exoplanet, planet_type, low_call, layerVars, noiseVars, rng,
                   limit, collection, exoplanets, index, update_calls>>

\* Lines 337-338.
BatchRenderLow ==
    /\ pc = "render_low"
    /\ \E rnd_colors \in BatchDraws, allocated \in BOOLEAN :
            LET call == generate_simple_texture(exoplanet, rnd_colors)
            IN  low_call' = IF allocated THEN call ELSE OutOfMemory(call)
    /\ IF Raised(low_call')
       THEN Raise(ExceptionOf(low_call'), "generate_simple_texture")
       ELSE pc' = "update_one" /\ UNCHANGED <<errors, outcome>>
    /\ UNCHANGED <<exoplanet, planet_type, high_call, layerVars, noiseVars, rng,
                   limit, collection, exoplanets, index, update_calls>>

\* Lines 340-351: the call of update_one, which sets the three fields on the
\* document of this _id, or fails when the store is unavailable.
BatchUpdateOne ==
    /\ pc = "update_one"
    /\ \E available \in BOOLEAN :
            /\ update_calls' = Append(update_calls,
                                      [filter |-> exoplanets[index]._id,
                                       set |-> update_data, ok |-> available])
            /\ IF available
               THEN /\ collection' =
                            [k \in 1 .. Len(collection) |->
                                IF collection[k]._id = exoplanets[index]._id
                                THEN [collection[k] EXCEPT !.textures = <<update_data>>]
                                ELSE collection[k]]
                    /\ pc' = "loop"
                    /\ UNCHANGED <<errors, outcome>>
               ELSE /\ collection' = collection
                    /\ Raise(PyMongoError, "update_one")
    /\ UNCHANGED <<recordVars, layerVars, noiseVars, rng, limit, exoplanets, index>>

(***************************************************************************)
(* simple_perlin_noise                                                     *)
(* math.sin and math.cos are functions of the angle with values in         *)
(* [-1, 1]: the value at an angle is chosen when the angle is first used   *)
(* and is the same at every later use.  Values are counted in TrigUnit-ths,*)
(* the amplitude 0.5^k in 2^(octaves - 1)-ths, so every quantity of the    *)
(* loop is an integer and the result an exact fraction <<num, den>>.       *)
(***************************************************************************)
TrigValues == {0 - TrigUnit, -1, 1, TrigUnit}

RECURSIVE Pow2(_)
Pow2(n) == IF n = 0 THEN 1 ELSE 2 * Pow2(n - 1)

\* The angles the loop of lines 136-140 passes to sin (on x) and cos (on y).
Frequencies(scale, octaves) == {scale * Pow2(k) : k \in 0 .. octaves - 1}
SinAngles(x, scale, octaves) == {x * f : f \in Frequencies(scale, octaves)}
CosAngles(y, scale, octaves) == {y * f : f \in Frequencies(scale, octaves)}

\* Lines 136-140: the iterations left, with the locals of the loop.
RECURSIVE PerlinLoop(_, _, _, _, _, _, _, _)
PerlinLoop(t, x, y, left, value, amplitude, frequency, max_value) ==
    IF left = 0 THEN <<value, max_value>>
    ELSE PerlinLoop(t, x, y, left - 1,
                    value + t.sin[x * frequency] * t.cos[y * frequency] * amplitude,
                    amplitude \div 2, frequency * 2, max_value + amplitude)

\* Mutant: the sum returned without the division by max_value.
simple_perlin_noise_NotNormalised(t, x, y, scale, octaves) ==
    LET sums == PerlinLoop(t, x, y, octaves, 0, Pow2(octaves - 1), scale, 0)
        one == TrigUnit * TrigUnit * Pow2(octaves - 1)
    IN  <<sums[1] + one, 2 * one>>

\* Lines 131-142: (value / max_value + 1) / 2 = (value + max_value) /
\* (2 * max_value), value counted in TrigUnit^2-ths.
simple_perlin_noise(t, x, y, scale, octaves) ==
    LET sums == PerlinLoop(t, x, y, octaves, 0, Pow2(octaves - 1), scale, 0)
        max_value == TrigUnit * TrigUnit * sums[2]
    IN  <<sums[1] + max_value, 2 * max_value>>

\* The tables of sin and cos extended to the angles of this call.
Extended(known, angles, values) ==
    [a \in DOMAIN known \cup angles |-> IF a \in DOMAIN known THEN known[a] ELSE values[a]]

\* One call of simple_perlin_noise(x, y, scale, octaves).
CallPerlin ==
    /\ pc = "simple_perlin_noise"
    /\ Len(samples) < 2
    /\ LET x == noise_args.x
           y == noise_args.y
           sa == SinAngles(x, noise_args.scale, noise_args.octaves)
           ca == CosAngles(y, noise_args.scale, noise_args.octaves)
       IN  \E sv \in [sa \ DOMAIN trig.sin -> TrigValues],
              cv \in [ca \ DOMAIN trig.cos -> TrigValues] :
                /\ trig' = [sin |-> Extended(trig.sin, sa, sv),
                            cos |-> Extended(trig.cos, ca, cv)]
                /\ samples' = Append(samples,
                                     simple_perlin_noise(trig', x, y, noise_args.scale,
                                                         noise_args.octaves))
    /\ UNCHANGED <<pc, recordVars, layerVars, batchVars, noise_args, rng>>

(***************************************************************************)
(* The module-level generator of random                                    *)
(* Every function of the module draws from the one generator the random    *)
(* module keeps.  Its state is its seed and the number of calls made since *)
(* it was seeded; the value of a call is a fixed function of that state.   *)
(***************************************************************************)
\* random.random() in the state g, in hundredths of [0, 1).
Stream(g) == ((g.seed + g.drawn) * 61 + 17) % 100

\* random.randint(a, b) in the state g.
randint(g, a, b) == a + (Stream(g) % (b - a + 1))

\* The state after n more calls.
Advance(g, n) == [g EXCEPT !.drawn = @ + n]

\* Lines 85, 99 and 115: get_scientific_colors calls random.random().
ConsultsDraw(ptype, temp) ==
    \/ ptype = MINI_NEPTUNE
    \/ ptype = SUPER_EARTH /\ temp > 250 /\ ~(temp > 400)
    \/ ptype = TERRESTRIAL /\ temp > 200 /\ ~(temp > 350)

\* The calls a layer makes on an image of side size, entered in the state g:
\* draw_atmospheric_bands one (line 163); draw_clouds the count of strips
\* and one per strip (lines 189-193), or the count of spots and three per
\* spot (lines 198-202), or none for wisps; add_noise one per pixel.
LayerDraws(layer, size, g) ==
    IF layer.op = "draw_atmospheric_bands" THEN 1
    ELSE IF layer.op = "draw_clouds" THEN
        IF layer.pattern = "bands" THEN 1 + randint(g, 5, 10)
        ELSE IF layer.pattern = "spots" THEN 1 + 3 * randint(g, 3, 8)
        ELSE 0
    ELSE IF layer.op = "add_noise" THEN size * size
    ELSE 0

\* The state of the generator after the layers, run in order.
RECURSIVE AfterLayers(_, _, _)
AfterLayers(layers, size, g) ==
    IF layers = << >> THEN g
    ELSE AfterLayers(Tail(layers), size, Advance(g, LayerDraws(Head(layers), size, g)))

\* Mutant: each call of a render draws from a generator of its own, seeded
\* alike, and leaves the module-level one as it was.
AfterRender_OwnGenerator(g, after) == g

\* The module-level generator when a render that left it in the state
\* after has returned.
AfterRender(g, after) == after

\* generate_planet_texture(d) entered in the state g: the call, and the
\* state it leaves.  The palette is drawn first (line 238); the draw of the
\* ICE_GIANT recipe follows its bands (line 255), that of MINI_NEPTUNE
\* precedes every layer (line 260).
DrawnPlanetTexture(d, g) ==
    LET ptype == classify_planet(d)
        temp == texture_temp(d)
        g1 == IF ConsultsDraw(ptype, temp) THEN Advance(g, 1) ELSE g
        rnd_recipe == IF ptype = ICE_GIANT THEN Stream(Advance(g1, 1)) ELSE Stream(g1)
        call == generate_planet_texture(d, None, Stream(g), rnd_recipe)
        recipe == SubSeq(call.img.layers, 1, Len(call.img.layers) - 1)
        g2 == IF ptype = ICE_GIANT
              THEN AfterLayers(Tail(recipe), call.size,
                               Advance(AfterLayers(<<Head(recipe)>>, call.size, g1), 1))
              ELSE IF ptype = MINI_NEPTUNE
              THEN AfterLayers(recipe, call.size, Advance(g1, 1))
              ELSE AfterLayers(recipe, call.size, g1)
    IN  IF call.state = "raised" THEN [call |-> call, rng |-> g]
        ELSE [call |-> call, rng |-> AfterRender(g, g2)]

\* generate_simple_texture(d) entered in the state g.
DrawnSimpleTexture(d, g) ==
    LET ptype == classify_planet(d)
        call == generate_simple_texture(d, Stream(g))
    IN  IF call.state = "raised" THEN [call |-> call, rng |-> g]
        ELSE [call |-> call,
              rng |-> AfterRender(g, IF ConsultsDraw(ptype, colors_temp(d))
                                     THEN Advance(g, 1) ELSE g)]

\* Lines 327-338 for a seeded generator: the two renders of the next record
\* of the list.
SeededRenderHigh ==
    /\ pc = "seeded_high"
    /\ index < Len(exoplanets)
    /\ index' = index + 1
    /\ exoplanet' = exoplanets[index + 1].record
    /\ high_call' = DrawnPlanetTexture(exoplanets[index + 1].record, rng).call
    /\ rng' = DrawnPlanetTexture(exoplanets[index + 1].record, rng).rng
    /\ pc' = "seeded_low"
    /\ UNCHANGED <<planet_type, low_call, layerVars, noiseVars,
                   limit, collection, exoplanets, update_calls, errors, outcome>>

SeededRenderLow ==
    /\ pc = "seeded_low"
    /\ low_call' = DrawnSimpleTexture(exoplanet, rng).call
    /\ rng' = DrawnSimpleTexture(exoplanet, rng).rng
    /\ pc' = IF index < Len(exoplanets) THEN "seeded_high" ELSE "seeded_done"
    /\ UNCHANGED <<exoplanet, planet_type, high_call, layerVars, noiseVars, batchVars>>

(***************************************************************************)
(* Inputs                                                                  *)
(***************************************************************************)
\* Radii run over the half units -1.0, -0.5, 0, 0.5, ... MaxRadiusSteps/2.
MaxRadiusSteps == 32

RadiusGrid == {5 * k : k \in -2 .. MaxRadiusSteps}

\* Masses (tenths): 0 and a negative, and the masses that put the density on
\* and beside 0.4, 0.8 and 1.2 for the radii of the grid.
MassGrid ==
    {-10, 0, 1, 10, 50, 95, 96, 97, 170, 511, 512, 513, 1000, 1500,
     2915, 2916, 2917, 3200, 4000, 12000}

TempCalcGrid == {-5, 0, 100, 300, 499, 500, 501, 999, 1000, 1001, 1400}

TempMeasGrid == {0, 400, 600, 1200}

\* Every record over the given value sets; each field may be missing.
RecordsOver(M, R, TC, TM) ==
    LET Opt(S) == {None} \cup {<<v>> : v \in S}
        Build(m, r, tc, tm) ==
            LET present ==
                    {f \in Fields :
                        \/ f = "mass" /\ m # None
                        \/ f = "radius" /\ r # None
                        \/ f = "temp_calculated" /\ tc # None
                        \/ f = "temp_measured" /\ tm # None}
            IN  [f \in present |->
                    CASE f = "mass" -> m[1]
                      [] f = "radius" -> r[1]
                      [] f = "temp_calculated" -> tc[1]
                      [] OTHER -> tm[1]]
    IN  {Build(m, r, tc, tm) : m \in Opt(M), r \in Opt(R), tc \in Opt(TC), tm \in Opt(TM)}

ClassifyInputs == RecordsOver(MassGrid, RadiusGrid, TempCalcGrid, TempMeasGrid)

\* The records the two renders are called on: radii on and beside 2, 5 and
\* 10, temperatures on and beside every threshold of the palettes and recipes.
TextureMassGrid == {10, 100, 3200}

TextureRadiusGrid == {-10, 0, 10, 15, 20, 30, 35, 50, 55, 70, 90, 100, 105, 150}

TextureTempCalcGrid ==
    {0, 99, 100, 150, 151, 200, 201, 250, 251, 288, 350, 351, 400, 401,
     600, 601, 700, 701, 1400, 1500, 1501, 2000, 2001}

TextureTempMeasGrid == {0, 600}

\* temp_measured is varied where temp_calculated is missing, 0, -5 or 288.
TextureInputs ==
    RecordsOver(TextureMassGrid, TextureRadiusGrid, TextureTempCalcGrid, {})
        \cup RecordsOver(TextureMassGrid, TextureRadiusGrid, {0, -5, 288}, TextureTempMeasGrid)

\* Values of random.random(), in hundredths of [0, 1): on and beside every
\* threshold a draw is compared to.
RandomDraws == {0, 30, 40, 41, 50, 51, 60, 70, 71, 99}

(***************************************************************************)
(* classify_planet as a function of its argument                           *)
(***************************************************************************)
InitClassify ==
    /\ pc = "call_classify"
    /\ exoplanet \in ClassifyInputs
    /\ planet_type = NoResult
    /\ high_call = NotCalled
    /\ low_call = NotCalled
    /\ LayersIdle
    /\ BatchIdle
    /\ NoiseIdle
    /\ RngIdle

CallClassify ==
    /\ pc = "call_classify"
    /\ planet_type' = classify_planet(exoplanet)
    /\ pc' = "classified"
    /\ UNCHANGED <<batchVars, noiseVars, rng, exoplanet, high_call, low_call, layerVars>>

NextClassify == CallClassify

SpecClassify == InitClassify /\ [][NextClassify]_vars

(***************************************************************************)
(* The two renders as functions of a record: generate_planet_texture is    *)
(* called with no resolution argument, then generate_simple_texture,       *)
(* whether or not the first call raised.                                   *)
(***************************************************************************)
InitTexture ==
    /\ pc = "call_textures"
    /\ exoplanet \in TextureInputs
    /\ planet_type = NoResult
    /\ high_call = NotCalled
    /\ low_call = NotCalled
    /\ LayersIdle
    /\ BatchIdle
    /\ NoiseIdle
    /\ RngIdle

CallPlanetTexture ==
    /\ pc = "call_textures"
    /\ high_call.state = "not_called"
    /\ \E rnd_colors \in RandomDraws, rnd_recipe \in RandomDraws :
            high_call' = generate_planet_texture(exoplanet, None, rnd_colors, rnd_recipe)
    /\ UNCHANGED <<batchVars, noiseVars, rng, pc, exoplanet, planet_type, low_call, layerVars>>

CallSimpleTexture ==
    /\ pc = "call_textures"
    /\ high_call.state # "not_called"
    /\ low_call.state = "not_called"
    /\ \E rnd_colors \in RandomDraws :
            low_call' = generate_simple_texture(exoplanet, rnd_colors)
    /\ UNCHANGED <<batchVars, noiseVars, rng, pc, exoplanet, planet_type, high_call, layerVars>>

NextTexture == CallPlanetTexture \/ CallSimpleTexture

SpecTexture == InitTexture /\ [][NextTexture]_vars

(***************************************************************************)
(* add_noise as a function of an image and an intensity                    *)
(***************************************************************************)
\* Intensities run over 0 .. MaxIntensity, and the least and the greatest
\* intensity a recipe passes (15 and 30).
MaxIntensity == 2

Intensities == (0 .. MaxIntensity) \cup {15, 30}

\* Pixels with channels on and beside both ends of the range and in its middle.
PixelSamples == {<<0, 0, 0>>, <<255, 255, 255>>, <<1, 128, 254>>, <<100, 128, 150>>}

\* Images of one pixel, of a row of two and of a column of two.
NoiseShapes == {<<1, 1>>, <<2, 1>>, <<1, 2>>}

ImagesOver(shapes, pixels) ==
    UNION {{[width |-> sh[1], height |-> sh[2], px |-> f] :
                f \in [Positions(sh[1], sh[2]) -> pixels]} : sh \in shapes}

InitNoise ==
    /\ pc = "add_noise"
    /\ exoplanet = << >>
    /\ planet_type = NoResult
    /\ high_call = NotCalled
    /\ low_call = NotCalled
    /\ canvas \in ImagesOver(NoiseShapes, PixelSamples)
    /\ canvas_in = canvas
    /\ overlay = << >>
    /\ \E n \in Intensities : frame = [NoFrame EXCEPT !.fn = "add_noise", !.intensity = n]
    /\ BatchIdle
    /\ NoiseIdle
    /\ RngIdle

NextNoise == AddNoiseStep \/ AddNoiseReturn

SpecNoise == InitNoise /\ [][NextNoise]_vars

(***************************************************************************)
(* draw_clouds as a function of an image, a palette, a density and a       *)
(* pattern                                                                 *)
(***************************************************************************)
\* Images of one column of 1 .. MaxRows rows, and a row of two pixels.
MaxRows == 4

CloudShapes == {<<1, h>> : h \in 1 .. MaxRows} \cup {<<2, 1>>}

CloudPixels == {<<0, 0, 0>>, <<255, 255, 255>>}

CloudPalettes == {WarmNeptuneColors, TerrestrialColors(700, 0)}

\* Densities (hundredths): the least and the greatest a recipe passes, and 0.5.
CloudDensities == {20, 50, 80}

InitClouds ==
    /\ pc = "draw_clouds"
    /\ exoplanet = << >>
    /\ planet_type = NoResult
    /\ high_call = NotCalled
    /\ low_call = NotCalled
    /\ canvas \in ImagesOver(CloudShapes, CloudPixels)
    /\ canvas_in = canvas
    /\ overlay = << >>
    /\ \E colors \in CloudPalettes, density \in CloudDensities,
          pattern \in {"bands", "spots", "wisps"} :
            frame = [NoFrame EXCEPT !.fn = "draw_clouds", !.colors = colors,
                                    !.density = density, !.pattern = pattern]
    /\ BatchIdle
    /\ NoiseIdle
    /\ RngIdle

NextClouds ==
    \/ DrawCloudsBegin
    \/ CloudsBandStep
    \/ CloudsSpotStep
    \/ CloudsWispStep
    \/ CloudsLoopEnd
    \/ CloudsPaste

SpecClouds == InitClouds /\ [][NextClouds]_vars

(***************************************************************************)
(* The batch over a collection                                             *)
(***************************************************************************)
\* Collections of 0 .. MaxRecords documents.
MaxRecords == 2

\* A record that renders, with a palette picked by a draw, and one on which
\* classify_planet raises.
BatchRecords == {<< >>, [f \in {"radius"} |-> 0]}

\* The _id of a document is its position in the collection.
Collections ==
    UNION {{[k \in 1 .. n |-> [_id |-> k, record |-> r[k], textures |-> None]] :
                r \in [1 .. n -> BatchRecords]} : n \in 0 .. MaxRecords}

\* No limit, and the limits from 0 to the length of the longest collection.
Limits == {None} \cup {<<n>> : n \in 0 .. MaxRecords}

Init ==
    /\ pc = "batch_start"
    /\ exoplanet = << >>
    /\ planet_type = NoResult
    /\ high_call = NotCalled
    /\ low_call = NotCalled
    /\ LayersIdle
    /\ limit \in Limits
    /\ collection \in Collections
    /\ exoplanets = << >>
    /\ index = 0
    /\ update_calls = << >>
    /\ errors = << >>
    /\ outcome = ""
    /\ NoiseIdle
    /\ RngIdle

Next ==
    \/ BatchFetch
    \/ BatchLoopNext
    \/ BatchLoopEnd
    \/ BatchRenderHigh
    \/ BatchRenderLow
    \/ BatchUpdateOne

Spec == Init /\ [][Next]_vars

\* Every step of the batch is a step of the one process that runs it.
FairSpec == Spec /\ WF_vars(Next)

(***************************************************************************)
(* simple_perlin_noise as a function of its arguments, called twice        *)
(***************************************************************************)
\* Octave counts 1 .. MaxOctaves; the default is 3 and draw_clouds passes 2.
MaxOctaves == 3

NoiseArgs ==
    [x : {0, 1}, y : {0, 1}, scale : {1, 2}, octaves : 1 .. MaxOctaves]

InitPerlin ==
    /\ pc = "simple_perlin_noise"
    /\ exoplanet = << >>
    /\ planet_type = NoResult
    /\ high_call = NotCalled
    /\ low_call = NotCalled
    /\ LayersIdle
    /\ BatchIdle
    /\ trig = KnownTrig
    /\ noise_args \in NoiseArgs
    /\ samples = << >>
    /\ RngIdle

NextPerlin == CallPerlin

SpecPerlin == InitPerlin /\ [][NextPerlin]_vars

(***************************************************************************)
(* The renders of a list of records, from a seeded generator               *)
(***************************************************************************)
\* Seeds 0 .. MaxSeed.
MaxSeed == 9

\* Records whose palette is drawn: a Terrestrial at 300 K, a MiniNeptune of
\* radius 2.0 and a SuperEarth at 300 K; and a HotJupiter, whose palette is
\* not.
SeededRecords ==
    {<< >>,
     [f \in {"radius"} |-> 20],
     [f \in {"mass", "radius"} |-> IF f = "mass" THEN 1000 ELSE 20],
     [f \in {"radius", "temp_calculated"} |-> IF f = "radius" THEN 100 ELSE 1500]}

\* One record, or one record with another before it.
SeededLists ==
    {<<[_id |-> 1, record |-> b]>> : b \in SeededRecords}
        \cup {<<[_id |-> 1, record |-> a], [_id |-> 2, record |-> b]>> :
                a \in SeededRecords, b \in SeededRecords}

InitSeeded ==
    /\ pc = "seeded_high"
    /\ exoplanet = << >>
    /\ planet_type = NoResult
    /\ high_call = NotCalled
    /\ low_call = NotCalled
    /\ LayersIdle
    /\ limit = None
    /\ collection = << >>
    /\ exoplanets \in SeededLists
    /\ index = 0
    /\ update_calls = << >>
    /\ errors = << >>
    /\ outcome = ""
    /\ NoiseIdle
    /\ \E seed \in 0 .. MaxSeed : rng = [seed |-> seed, drawn |-> 0]

NextSeeded == SeededRenderHigh \/ SeededRenderLow

SpecSeeded == InitSeeded /\ [][NextSeeded]_vars

(***************************************************************************)
(* Properties of classify_planet                                           *)
(***************************************************************************)
\* A record is valid when every numeric field it has is a positive number.
ValidRecord(d) == \A f \in DOMAIN d : d[f] > 0

\* The values the classification works on, after the defaults.
MassOf(d) == get_default(d, "mass", EARTH_MASS)
RadiusOf(d) == get_default(d, "radius", EARTH_RADIUS)

\* C1: for every record whose mass, radius and temperature are positive or
\* absent, classify_planet returns one of the six PlanetType values: it
\* does not raise and returns nothing outside the enumeration.
C1_ClassifyTotalOnValid ==
    (pc = "classified" /\ ValidRecord(exoplanet)) => planet_type \in PlanetType

C1_Witness ==
    /\ pc = "classified"
    /\ ValidRecord(exoplanet)
    /\ DOMAIN exoplanet = Fields
    /\ planet_type = SUPER_EARTH

\* The documented rules, on mass m and radius r in tenths and temperature t:
\* density = m/r^3 compared to k/10 as an inequality of integers.
DocDensityBelow(m, r, k) ==
    IF r > 0 THEN 1000 * m < k * r * r * r ELSE 1000 * m > k * r * r * r

DocRule1(m, r, t) == r > 80 /\ t > 1000 /\ DocDensityBelow(m, r, 4)
DocRule2(m, r, t) == r > 30 /\ r < 80 /\ t > 500 /\ t < 1000 /\ DocDensityBelow(m, r, 8)
DocRule3(m, r, t) == r > 30 /\ t < 500 /\ DocDensityBelow(m, r, 8)
DocRule4(m, r, t) == r > 15 /\ r < 40 /\ DocDensityBelow(m, r, 12)
DocRule5(m, r, t) == r > 15 /\ ~DocDensityBelow(m, r, 12)

DocFirstMatch(m, r, t) ==
    CASE DocRule1(m, r, t) -> HOT_JUPITER
      [] ~DocRule1(m, r, t) /\ DocRule2(m, r, t) -> WARM_NEPTUNE
      [] ~DocRule1(m, r, t) /\ ~DocRule2(m, r, t) /\ DocRule3(m, r, t) -> ICE_GIANT
      [] ~DocRule1(m, r, t) /\ ~DocRule2(m, r, t) /\ ~DocRule3(m, r, t)
            /\ DocRule4(m, r, t) -> MINI_NEPTUNE
      [] ~DocRule1(m, r, t) /\ ~DocRule2(m, r, t) /\ ~DocRule3(m, r, t)
            /\ ~DocRule4(m, r, t) /\ DocRule5(m, r, t) -> SUPER_EARTH
      [] OTHER -> TERRESTRIAL

\* C2: whenever classify_planet returns, its result is the category of the
\* first documented rule that matches (HotJupiter, WarmNeptune, IceGiant,
\* MiniNeptune, SuperEarth, else Terrestrial), every comparison strict but
\* density >= 1.2; an input matching both rule 3 and rule 4 is IceGiant.
C2_FirstMatchingRule ==
    (pc = "classified" /\ planet_type # ZeroDivisionError) =>
        LET m == MassOf(exoplanet)
            r == RadiusOf(exoplanet)
            t == temp_of(exoplanet)
        IN  /\ planet_type = DocFirstMatch(m, r, t)
            /\ (DocRule3(m, r, t) /\ DocRule4(m, r, t)) => planet_type = ICE_GIANT

C2_Witness ==
    /\ pc = "classified"
    /\ DocRule3(MassOf(exoplanet), RadiusOf(exoplanet), temp_of(exoplanet))
    /\ DocRule4(MassOf(exoplanet), RadiusOf(exoplanet), temp_of(exoplanet))
    /\ RadiusOf(exoplanet) = 35
    /\ planet_type = ICE_GIANT

\* C3 (as claimed): a supplied radius of 0 is replaced by the default 1.0
\* before the density is computed, so the call returns the category of the
\* record with radius 1.0 and does not divide by zero.
C3_RadiusZeroUsesDefault ==
    (pc = "classified" /\ get(exoplanet, "radius") = <<0>>) =>
        /\ planet_type # ZeroDivisionError
        /\ planet_type = DocFirstMatch(MassOf(exoplanet), EARTH_RADIUS, temp_of(exoplanet))

\* The record {mass: 320, radius: 9, temp_calculated: 1400}.
Record320 == [mass |-> 3200, radius |-> 90, temp_calculated |-> 1400]

\* C4: for {mass: 320, radius: 9, temp_calculated: 1400} the density
\* 320/729 is not below 0.4, none of the rules 1 to 5 matches, and the
\* result is Terrestrial.
C4_Record320IsTerrestrial ==
    (pc = "classified" /\ exoplanet = Record320) =>
        /\ planet_type = TERRESTRIAL
        /\ FracGe(Density(3200, 90), 4)
        /\ ~DocRule1(3200, 90, 1400) /\ ~DocRule2(3200, 90, 1400)
        /\ ~DocRule3(3200, 90, 1400) /\ ~DocRule4(3200, 90, 1400)
        /\ ~DocRule5(3200, 90, 1400)

C4_Witness == pc = "classified" /\ exoplanet = Record320

(***************************************************************************)
(* Properties of the two renders                                           *)
(***************************************************************************)
\* C5: for the record with no fields the defaults (mass 1, radius 1,
\* temperature 300) are used: neither render raises, both classify it
\* Terrestrial, the detailed image is 256x256 and the icon is 32x32.
C5_EmptyRecordRenders ==
    (DOMAIN exoplanet = {}) =>
        /\ high_call.state # "raised"
        /\ low_call.state # "raised"
        /\ high_call.state = "returned" =>
            /\ high_call.planet_type = TERRESTRIAL
            /\ high_call.planet_type = DocFirstMatch(10, 10, 300)
            /\ high_call.temp = 300 /\ high_call.temp_classify = 300
            /\ high_call.img.width = 256 /\ high_call.img.height = 256
        /\ low_call.state = "returned" =>
            /\ low_call.planet_type = TERRESTRIAL
            /\ low_call.temp_classify = 300
            /\ low_call.img.width = 32 /\ low_call.img.height = 32

C5_Witness ==
    /\ DOMAIN exoplanet = {}
    /\ high_call.state = "returned"
    /\ low_call.state = "returned"

\* The temperature of a record as claimed: the first field that is present.
DocTempPresent(d) ==
    IF "temp_calculated" \in DOMAIN d THEN d["temp_calculated"]
    ELSE IF "temp_measured" \in DOMAIN d THEN d["temp_measured"]
    ELSE 300

\* The temperature of a record: the first field that is present and not 0.
DocTempNonZero(d) ==
    IF "temp_calculated" \in DOMAIN d /\ d["temp_calculated"] # 0 THEN d["temp_calculated"]
    ELSE IF "temp_measured" \in DOMAIN d /\ d["temp_measured"] # 0 THEN d["temp_measured"]
    ELSE 300

\* C6 (as claimed): the temperature of a detailed render is temp_calculated
\* when it is present, otherwise temp_measured when it is present,
\* otherwise 300, and classification, palette and recipe all use it.
C6_TempFirstPresent ==
    high_call.state = "returned" =>
        /\ high_call.temp_classify = DocTempPresent(exoplanet)
        /\ high_call.temp_colors = DocTempPresent(exoplanet)
        /\ high_call.temp = DocTempPresent(exoplanet)

\* C6 (amended): the temperature of a detailed render is temp_calculated
\* when it is present and not 0, otherwise temp_measured when it is present
\* and not 0, otherwise 300; classification, palette and recipe all use
\* this one value, and the category is the one the rules give for it.
C6_TempFirstNonZero ==
    high_call.state = "returned" =>
        /\ high_call.temp_classify = DocTempNonZero(exoplanet)
        /\ high_call.temp_colors = DocTempNonZero(exoplanet)
        /\ high_call.temp = DocTempNonZero(exoplanet)
        /\ high_call.planet_type =
              DocFirstMatch(MassOf(exoplanet), RadiusOf(exoplanet), DocTempNonZero(exoplanet))

C6_Witness ==
    /\ high_call.state = "returned"
    /\ get(exoplanet, "temp_calculated") = <<0>>
    /\ get(exoplanet, "temp_measured") = <<600>>
    /\ high_call.temp = 600
    /\ high_call.temp_classify = 600
    /\ high_call.temp_colors = 600

\* The documented side length for a radius (tenths), None when absent.
DocSide(radius) ==
    IF radius = None THEN 256
    ELSE IF radius[1] > 100 THEN 512
    ELSE IF radius[1] > 50 /\ radius[1] <= 100 THEN 256
    ELSE IF radius[1] > 20 /\ radius[1] <= 50 THEN 128
    ELSE 64

\* C7: the image a detailed render returns is square, with side 512 when
\* radius > 10, 256 when 5 < radius <= 10, 128 when 2 < radius <= 5, 64
\* when radius <= 2 and 256 when the radius is absent.
C7_ResolutionTable ==
    high_call.state = "returned" =>
        /\ high_call.img.width = DocSide(get(exoplanet, "radius"))
        /\ high_call.img.height = high_call.img.width
        /\ get(exoplanet, "radius") = <<150>> => high_call.img.width = 512
        /\ get(exoplanet, "radius") = <<70>> => high_call.img.width = 256
        /\ get(exoplanet, "radius") = <<30>> => high_call.img.width = 128
        /\ get(exoplanet, "radius") = <<10>> => high_call.img.width = 64

C7_Witness ==
    /\ high_call.state = "returned"
    /\ get(exoplanet, "radius") = <<100>>
    /\ high_call.img.width = 256
    /\ high_call.img.height = 256

\* C8 (as claimed): called on any record, the icon render returns a 32x32
\* image.
C8_IconAlways32 ==
    low_call.state # "not_called" =>
        /\ low_call.state = "returned"
        /\ low_call.img.width = 32
        /\ low_call.img.height = 32

(***************************************************************************)
(* Properties of the layer renderers                                       *)
(***************************************************************************)
InByteRange(pixel) == \A c \in 1 .. 3 : pixel[c] >= 0 /\ pixel[c] <= 255

\* C9: while add_noise runs and after it, every channel of every pixel is
\* in 0 .. 255, for every intensity >= 0, every starting image with
\* channels in 0 .. 255 and every draw.
C9_NoiseStaysInByteRange ==
    pc \in {"add_noise", "add_noise_returned"} =>
        \A p \in DOMAIN canvas.px : InByteRange(canvas.px[p])

\* A channel at 254 and a channel at 1 of one image have both been pushed
\* to the ends of the range by draws of intensity 30.
C9_Witness ==
    /\ pc = "add_noise_returned"
    /\ frame.intensity = 30
    /\ \E p \in DOMAIN canvas.px :
            /\ canvas_in.px[p] = <<1, 128, 254>>
            /\ canvas.px[p][3] = 255
            /\ canvas.px[p][1] > 1
    /\ \E p \in DOMAIN canvas.px :
            /\ canvas_in.px[p] = <<1, 128, 254>>
            /\ canvas.px[p][1] = 0
            /\ canvas.px[p][3] < 254

\* Where the overlay of draw_clouds is transparent the paste keeps the
\* pixel, whatever the pattern.
TransparentPixelsKept ==
    pc = "draw_clouds_returned" =>
        \A p \in DOMAIN canvas.px : overlay[p][4] = 0 => canvas.px[p] = canvas_in.px[p]

TransparentPixelsKept_Witness ==
    /\ pc = "draw_clouds_returned"
    /\ \E p \in DOMAIN canvas.px : overlay[p][4] = 0

\* With pattern 'bands' the strips tile the image: when the loop has ended
\* no pixel of the overlay is transparent (the case C10 speaks of is empty).
BandsLeaveNoPixelTransparent ==
    (pc \in {"clouds_paste", "draw_clouds_returned"} /\ frame.pattern = "bands") =>
        \A p \in DOMAIN overlay : overlay[p][4] >= 76 /\ overlay[p][4] <= 178

\* A pixel that pattern 'bands' left with a transparent overlay.
BandsTransparentPixel ==
    /\ pc = "draw_clouds_returned"
    /\ frame.pattern = "bands"
    /\ \E p \in DOMAIN overlay : overlay[p][4] = 0

(***************************************************************************)
(* Properties of the recipes                                               *)
(***************************************************************************)
\* A layer call without the colours it was given.
CallOf(layer) == <<layer.op, layer.param, layer.pattern>>

\* The layer calls of an image, the final filter left aside.
RecipeCalls(img) ==
    LET drawn == SelectSeq(img.layers, LAMBDA l : l.op # "GaussianBlur")
    IN  [k \in 1 .. Len(drawn) |-> CallOf(drawn[k])]

\* C11: a detailed render of a record classified HotJupiter applies exactly
\* bands(turbulence 1.5), clouds(density 0.4, spots), noise(25), in that
\* order, whatever the temperature and the random draws.
C11_HotJupiterRecipe ==
    (high_call.state = "returned" /\ high_call.planet_type = HOT_JUPITER) =>
        RecipeCalls(high_call.img) =
            << <<"draw_atmospheric_bands", 150, "">>,
               <<"draw_clouds", 40, "spots">>,
               <<"add_noise", 25, "">> >>

C11_Witness ==
    /\ high_call.state = "returned"
    /\ high_call.planet_type = HOT_JUPITER
    /\ high_call.temp = 2001
    /\ Len(high_call.img.layers) = 4
    /\ high_call.img.layers[2].op = "draw_clouds"

\* C12: a detailed render of a record classified Terrestrial whose
\* temperature is below 150 K applies noise(15) and no other layer.
C12_ColdTerrestrialNoiseOnly ==
    (/\ high_call.state = "returned"
     /\ high_call.planet_type = TERRESTRIAL
     /\ high_call.temp < 150) =>
        RecipeCalls(high_call.img) = << <<"add_noise", 15, "">> >>

C12_Witness ==
    /\ high_call.state = "returned"
    /\ high_call.planet_type = TERRESTRIAL
    /\ high_call.temp = 99
    /\ high_call.img.layers[1] = Noise(15)

\* C13: every detailed render applies the Gaussian blur of radius 0.5
\* exactly once, as its last step: after every layer of the recipe.
C13_BlurOnceAtEnd ==
    high_call.state = "returned" =>
        LET L == high_call.img.layers
        IN  /\ Len(L) >= 1
            /\ L[Len(L)] = GaussianBlur
            /\ \A k \in 1 .. Len(L) - 1 : L[k].op # "GaussianBlur"
            /\ \E rnd \in RandomDraws :
                    SubSeq(L, 1, Len(L) - 1) =
                        Recipe(high_call.planet_type, high_call.colors, high_call.temp, rnd)

C13_Witness ==
    /\ high_call.state = "returned"
    /\ high_call.planet_type = MINI_NEPTUNE
    /\ Len(high_call.img.layers) = 4
    /\ high_call.img.layers[1].op = "draw_atmospheric_bands"
    /\ high_call.img.layers[4] = GaussianBlur

(***************************************************************************)
(* Properties of the icon                                                  *)
(***************************************************************************)
\* The colour of a pixel at distance d from the centre of the image: that of
\* the last ellipse drawn whose radius reaches it, else the fill.
IconColorAt(img, d) ==
    LET reaching == {k \in 1 .. Len(img.layers) :
                        img.layers[k].op = "ellipse" /\ img.layers[k].param >= d}
    IN  IF reaching = {} THEN img.fill
        ELSE img.layers[CHOOSE k \in reaching : \A j \in reaching : j <= k].colors[1]

\* Two colours no further apart, on any channel, than one step of a
\* gradient of 16 steps can be (255 / 16).
Near(c1, c2) ==
    \A i \in 1 .. 3 : c1[i] - c2[i] <= 16 /\ c2[i] - c1[i] <= 16

\* C14: the icon's centre pixel has (approximately) the palette's base
\* colour, its outermost ring has the shadow colour, and nothing but the
\* gradient's ellipses is drawn (no noise, no blur, no bands).
C14_IconBaseAtCentre ==
    low_call.state = "returned" =>
        /\ Near(IconColorAt(low_call.img, 0), low_call.colors[1])
        /\ IconColorAt(low_call.img, low_call.size \div 2) = low_call.colors[2]
        /\ \A k \in 1 .. Len(low_call.img.layers) : low_call.img.layers[k].op = "ellipse"

\* What the code draws: the outermost ring has the base colour and the
\* centre is one sixteenth of the way from the shadow to the base.
IconShadowAtCentre ==
    low_call.state = "returned" =>
        /\ Near(IconColorAt(low_call.img, 0), low_call.colors[2])
        /\ IconColorAt(low_call.img, low_call.size \div 2) = low_call.colors[1]
        /\ \A k \in 1 .. Len(low_call.img.layers) : low_call.img.layers[k].op = "ellipse"

(***************************************************************************)
(* Properties of the batch                                                 *)
(***************************************************************************)
\* The positions, in errors, of the exceptions raised by one of the renders.
RenderErrors == {k \in 1 .. Len(errors) : errors[k].at # "update_one"}

\* update_one was called for the document id.
Written(id) == \E c \in 1 .. Len(update_calls) : update_calls[c].filter = id

\* The loop reached the document id: it was written or its try block raised.
Attempted(id) == Written(id) \/ \E k \in 1 .. Len(errors) : errors[k]._id = id

\* The last render call ended with an exception.
RenderRaised == high_call.state = "raised" \/ low_call.state = "raised"

RenderErrorSkipsRecordOnly ==
    /\ \A k \in RenderErrors : ~Written(errors[k]._id)
    /\ outcome # "raised" \/ index = 0
    /\ outcome = "completed" =>
            \A k \in 1 .. Len(exoplanets) : Attempted(exoplanets[k]._id)

\* C15: an exception raised while rendering a record is caught at the loop:
\* the record gets no update_one, the batch does not end with the exception,
\* every record of the list is attempted and the batch completes.
C15_RenderErrorIsolated ==
    /\ []RenderErrorSkipsRecordOnly
    /\ RenderRaised ~> outcome = "completed"

C15_Witness ==
    /\ outcome = "completed"
    /\ Len(exoplanets) = 2
    /\ RenderErrors # {}
    /\ \E k \in RenderErrors : errors[k]._id = 1 /\ errors[k].exception = ZeroDivisionError
    /\ Written(2)
    /\ ~Written(1)

\* An update_one call failed.
UpdateFailed == \E c \in 1 .. Len(update_calls) : ~update_calls[c].ok

\* C16: a failure of the store, on the fetch or on a write, ends the batch:
\* the exception reaches the caller and nothing is processed after it.
C16_StoreFailureFatal ==
    /\ UpdateFailed =>
            /\ outcome = "raised"
            /\ pc = "batch_raised"
            /\ ~update_calls[Len(update_calls)].ok
            /\ \A c \in 1 .. Len(update_calls) - 1 : update_calls[c].ok
    /\ (pc = "batch_raised" /\ index = 0) =>
            outcome = "raised" /\ update_calls = << >> /\ errors = << >>

\* What the code does on a failed fetch: the half of C16 that holds.
FetchFailureFatal ==
    (pc = "batch_raised" /\ index = 0) =>
        outcome = "raised" /\ update_calls = << >> /\ errors = << >>

\* C17: every update_one is addressed to the _id of the record the loop is
\* on, no update_one was issued for that _id before, it sets the detailed
\* payload, the icon payload and the timestamp together, and both renders
\* of that record have returned when it is issued.
C17_OneWriteWithBothTextures ==
    [][update_calls' # update_calls =>
        /\ high_call.state = "returned"
        /\ low_call.state = "returned"
        /\ ~Written(exoplanets[index]._id)
        /\ Len(update_calls') = Len(update_calls) + 1
        /\ SubSeq(update_calls', 1, Len(update_calls)) = update_calls
        /\ LET call == update_calls'[Len(update_calls')]
           IN  /\ call.filter = exoplanets[index]._id
               /\ DOMAIN call.set =
                    {"texture_high_url", "texture_low_url", "texture_generated_at"}
               /\ call.set.texture_high_url = DataUrl(image_to_base64(high_call.img))
               /\ call.set.texture_low_url = DataUrl(image_to_base64(low_call.img))
               /\ high_call.img.width = get_texture_resolution(get(exoplanet, "radius"))
               /\ low_call.img.width = ICON_SIZE]_vars

C17_Witness ==
    /\ Len(update_calls) = 2
    /\ update_calls[1].filter = 1
    /\ update_calls[2].filter = 2
    /\ update_calls[1].ok /\ update_calls[2].ok
    /\ collection[2].textures = <<update_calls[2].set>>
    /\ update_calls[2].set.texture_generated_at = 2

\* C18: with a limit n >= 0 at most n records are rendered and written;
\* with no limit every record of the collection is processed.
C18_LimitCapsRecords ==
    /\ limit # None => (index <= limit[1] /\ Len(update_calls) <= limit[1])
    /\ (limit = None /\ outcome = "completed") => index = Len(collection)

\* What the code does: a limit of 0 is taken for no limit.
LimitCapsWhenPositive ==
    /\ (limit # None /\ limit[1] > 0) => (index <= limit[1] /\ Len(update_calls) <= limit[1])
    /\ (~Truthy(limit) /\ outcome = "completed") => index = Len(collection)

(***************************************************************************)
(* Properties of simple_perlin_noise                                       *)
(***************************************************************************)
\* The fraction q = <<num, den>>, den > 0, lies in [0, 1].
InUnitInterval(q) == q[2] > 0 /\ 0 <= q[1] /\ q[1] <= q[2]

\* Equality of two fractions with positive denominators.
SameValue(q1, q2) == q1[1] * q2[2] = q2[1] * q1[2]

WithoutNonPositive(d) ==
    LET kept == {f \in DOMAIN d : f = "radius" \/ d[f] > 0}
    IN  [f \in kept |-> d[f]]

\* The record has a non-positive mass or temperature.
HasNonPositive(d) == \E f \in DOMAIN d : f # "radius" /\ d[f] <= 0

\* C20: a supplied mass or temperature that is zero or negative is treated
\* as an absent one: classify_planet works on the mass and the temperature,
\* and returns the category, that it would with the field left out.
C20_NonPositiveAsAbsent ==
    (pc = "classified" /\ HasNonPositive(exoplanet)) =>
        /\ MassOf(exoplanet) = MassOf(WithoutNonPositive(exoplanet))
        /\ classify_temp(exoplanet) = classify_temp(WithoutNonPositive(exoplanet))
        /\ planet_type = classify_planet(WithoutNonPositive(exoplanet))

\* What the code does: only a temperature of 0 is passed over.
ZeroTemperatureAsAbsent ==
    LET zeroed == {f \in DOMAIN exoplanet :
                        f \in {"temp_calculated", "temp_measured"} /\ exoplanet[f] = 0}
        without == [f \in DOMAIN exoplanet \ zeroed |-> exoplanet[f]]
    IN  pc = "classified" =>
            /\ classify_temp(exoplanet) = classify_temp(without)
            /\ planet_type = classify_planet(without)

\* The category does not tell a non-positive mass from an absent one.
NonPositiveMassSameCategory ==
    LET without == [f \in DOMAIN exoplanet \ {"mass"} |-> exoplanet[f]]
    IN  (pc = "classified" /\ "mass" \in DOMAIN exoplanet /\ exoplanet["mass"] <= 0) =>
            planet_type = classify_planet(without)

(***************************************************************************)
(* Properties of the generator                                             *)
(***************************************************************************)
\* The two renders of the record d made first after seeding with seed.
RenderedFirst(d, seed) ==
    LET g0 == [seed |-> seed, drawn |-> 0]
        high == DrawnPlanetTexture(d, g0)
    IN  <<high.call, DrawnSimpleTexture(d, high.rng).call>>

\* C21: with the same initial state of the generator, the images of a
\* record are the same whatever record is rendered before it: they are
\* those the record gets when it is rendered first.
C21_PredecessorHasNoInfluence ==
    pc \in {"seeded_high", "seeded_done"} /\ index >= 1 =>
        <<high_call, low_call>> = RenderedFirst(exoplanet, rng.seed)

\* The generator is shared: the calls made for one record move the draws
\* of the next.
PredecessorMovesDraws ==
    /\ pc = "seeded_done"
    /\ index = 2
    /\ rng.drawn > 65536
    /\ high_call.colors # RenderedFirst(exoplanet, rng.seed)[1].colors

(***************************************************************************)
(* Properties of the recipes and the palettes under the draws              *)
(***************************************************************************)
\* The layer calls of the recipe of (ptype, temp) when its draw is rnd.
CallsOfRecipe(ptype, temp, rnd) ==
    LET recipe == Recipe(ptype, NoColors, temp, rnd)
    IN  [k \in 1 .. Len(recipe) |-> CallOf(recipe[k])]

DocConsultsDraw(ptype, temp) ==
    \/ ptype = MINI_NEPTUNE
    \/ ptype = SUPER_EARTH /\ 250 < temp /\ temp <= 400
    \/ ptype = TERRESTRIAL /\ 200 < temp /\ temp <= 350

\* The palettes get_scientific_colors can return for the record d.
PalettesOver(d, ptype) == {get_scientific_colors(d, ptype, rnd) : rnd \in RandomDraws}

\* C23: get_scientific_colors picks the palette by a random draw, among
\* three fixed palettes, exactly for a MiniNeptune, a SuperEarth with
\* 250 < temperature <= 400 and a Terrestrial with 200 < temperature <= 350;
\* otherwise the palette is determined by the category and the temperature.
C23_PaletteDrawnExactlyInBands ==
    high_call.state = "returned" =>
        LET ptype == high_call.planet_type
            temp == high_call.temp_colors
            palettes == PalettesOver(exoplanet, ptype)
            by_temp == [f \in {"temp_calculated"} |-> temp]
        IN  /\ high_call.colors \in palettes
            /\ DocConsultsDraw(ptype, temp) => Cardinality(palettes) = 3
            /\ ~DocConsultsDraw(ptype, temp) => palettes = {high_call.colors}
            /\ ConsultsDraw(ptype, temp) <=> DocConsultsDraw(ptype, temp)
            /\ palettes = PalettesOver(by_temp, ptype)

C23_Witness ==
    /\ high_call.state = "returned"
    /\ high_call.planet_type = TERRESTRIAL
    /\ high_call.temp_colors = 350
    /\ high_call.colors = TerrestrialColors(350, 99)
    /\ high_call.colors # TerrestrialColors(350, 0)

\* The pixel add_noise is about to perturb.
NoisePixel == canvas.px[<<frame.x, frame.y>>]

\* No channel of the pixel can be clamped by an offset of the intensity.
FarFromEnds(pixel, intensity) ==
    \A c \in 1..3 : intensity <= pixel[c] /\ pixel[c] <= 255 - intensity

AtFarPixel ==
    /\ pc = "add_noise"
    /\ frame.y < canvas.height
    /\ frame.intensity >= 1
    /\ FarFromEnds(NoisePixel, frame.intensity)

\* C24: add_noise perturbs the three channels of a pixel independently:
\* at a pixel whose channels are far from 0 and 255 the step has an outcome
\* in which the offsets added to R, G and B are not all the same.
C24_ChannelsPerturbedIndependently ==
    AtFarPixel =>
        ENABLED (/\ AddNoiseStep
                 /\ LET before == canvas.px[<<frame.x, frame.y>>]
                        after == canvas'.px[<<frame.x, frame.y>>]
                    IN  \/ after[1] - before[1] # after[2] - before[2]
                        \/ after[2] - before[2] # after[3] - before[3])

\* What the code does instead: every step adds one and the same offset, within
\* the intensity, to the three channels of such a pixel.
ChannelsShareOneOffset ==
    [][AtFarPixel =>
        LET before == canvas.px[<<frame.x, frame.y>>]
            after == canvas'.px[<<frame.x, frame.y>>]
        IN  /\ after[1] - before[1] = after[2] - before[2]
            /\ after[2] - before[2] = after[3] - before[3]
            /\ after[1] - before[1] \in (0 - frame.intensity) .. frame.intensity]_vars

\* The positions of the layers of a sequence applied by the operation op.
LayersOf(L, op) == {k \in 1 .. Len(L) : L[k].op = op}

\* C25: a detailed render starts from a canvas filled with the palette's base
\* colour; pixel noise is applied exactly once and is the last layer before
\* the blur; bands, when drawn, come before clouds, when drawn.
C25_BaseFillThenBandsCloudsNoise ==
    high_call.state = "returned" =>
        LET L == high_call.img.layers
            bands == LayersOf(L, "draw_atmospheric_bands")
            clouds == LayersOf(L, "draw_clouds")
            noise == LayersOf(L, "add_noise")
        IN  /\ high_call.img.fill = high_call.colors[1]
            /\ Len(L) >= 2
            /\ noise = {Len(L) - 1}
            /\ LayersOf(L, "GaussianBlur") = {Len(L)}
            /\ \A b \in bands : \A c \in clouds : b < c
            /\ \A b \in bands : b < Len(L) - 1
            /\ \A c \in clouds : c < Len(L) - 1
            /\ bands \cup clouds \cup noise \cup {Len(L)} = 1 .. Len(L)

C25_Witness ==
    /\ high_call.state = "returned"
    /\ high_call.planet_type = ICE_GIANT
    /\ high_call.img.fill = high_call.colors[1]
    /\ high_call.img.fill # <<0, 0, 0>>
    /\ Len(high_call.img.layers) = 4
    /\ high_call.img.layers[1].op = "draw_atmospheric_bands"
    /\ high_call.img.layers[2].op = "draw_clouds"
    /\ high_call.img.layers[3].op = "add_noise"

\* The pixels of the overlay that draw_clouds has painted visibly.
CloudPixelsDrawn == {p \in DOMAIN overlay : overlay[p][4] > 0}

OverlayRGB(p) == <<overlay[p][1], overlay[p][2], overlay[p][3]>>

CloudsDrawn == pc \in {"clouds_paste", "draw_clouds_returned"}

\* C26: the clouds of the three patterns are drawn in the highlight colour,
\* the third element of the palette.
C26_CloudsInHighlightColour ==
    CloudsDrawn => \A p \in CloudPixelsDrawn : OverlayRGB(p) = frame.colors[3]

\* What the code draws: the second element of the palette, its shadow colour.
CloudsInShadowColour ==
    CloudsDrawn => \A p \in CloudPixelsDrawn : OverlayRGB(p) = frame.colors[2]

CloudsInShadowColour_Witness ==
    /\ pc = "draw_clouds_returned"
    /\ frame.pattern = "wisps"
    /\ CloudPixelsDrawn # {}
    /\ frame.colors[2] # frame.colors[3]

PlanetTypes == {HOT_JUPITER, WARM_NEPTUNE, ICE_GIANT, MINI_NEPTUNE, SUPER_EARTH, TERRESTRIAL}

\* A render that got as far as its palette.
HasPalette(call) == call.state = "returned"

\* C27: the gray fallback palette is returned for no category that
\* classify_planet produces: each of the six categories has a branch that
\* returns a palette of its own at every temperature and for every draw.
C27_GrayFallbackNeverReturned ==
    /\ \A call \in {high_call, low_call} :
            HasPalette(call) =>
                /\ call.planet_type \in PlanetTypes
                /\ call.colors # GrayPalette
                /\ GrayPalette \notin PalettesOver(exoplanet, call.planet_type)
    /\ \A ptype \in PlanetTypes : GrayPalette \notin PalettesOver(exoplanet, ptype)

C27_Witness ==
    /\ HasPalette(high_call)
    /\ high_call.planet_type = WARM_NEPTUNE
    /\ high_call.colors[1] = <<139, 197, 232>>
    /\ get_scientific_colors(exoplanet, NoResult, 0) = GrayPalette

\* The density (hundredths) of the wisps of the temperate band of a category.
TemperateWisps(ptype) == IF ptype = SUPER_EARTH THEN 30 ELSE 25

HasTemperateWisps(call) ==
    \E k \in 1 .. Len(call.img.layers) :
        call.img.layers[k] = Clouds(call.colors, TemperateWisps(call.planet_type), "wisps")

RockyRender ==
    /\ high_call.state = "returned"
    /\ high_call.planet_type \in {SUPER_EARTH, TERRESTRIAL}

\* C28: for a SuperEarth and a Terrestrial the band of temperatures in which
\* the palette is drawn at random is the band in which the recipe draws the
\* wisps of mid density: clouds(0.3, wisps) iff 250 < temperature <= 400 for
\* a SuperEarth, clouds(0.25, wisps) iff 200 < temperature <= 350 for a
\* Terrestrial.
C28_DrawBandIsWispsBand ==
    RockyRender =>
        (DocConsultsDraw(high_call.planet_type, high_call.temp_colors)
            <=> HasTemperateWisps(high_call))

\* The two bands differ at their upper end only: at exactly 400 K resp. 350 K
\* the palette is drawn at random and the recipe is noise alone.
BandsDifferAtUpperEndOnly ==
    RockyRender =>
        \/ DocConsultsDraw(high_call.planet_type, high_call.temp_colors)
                <=> HasTemperateWisps(high_call)
        \/ /\ high_call.temp_colors = IF high_call.planet_type = SUPER_EARTH THEN 400 ELSE 350
           /\ high_call.temp = high_call.temp_colors
           /\ ~HasTemperateWisps(high_call)
           /\ Len(high_call.img.layers) = 2

DrawnPaletteWithoutWisps ==
    /\ RockyRender
    /\ high_call.planet_type = SUPER_EARTH
    /\ high_call.temp_colors = 400
    /\ high_call.colors = SuperEarthColors(400, 99)
    /\ high_call.img.layers = <<Noise(22), GaussianBlur>>

\* Both renders of the record have returned and are about to be stored.
BothRendered == pc = "update_one"

\* C29: the detailed render and the icon stored for a record are built from
\* the same category and the same palette.
C29_SamePaletteForBothRenders ==
    BothRendered =>
        /\ high_call.planet_type = low_call.planet_type
        /\ high_call.colors = low_call.colors

\* The category is the same; so is the palette that no draw decides.
SameCategoryForBothRenders ==
    BothRendered =>
        /\ high_call.planet_type = low_call.planet_type
        /\ high_call.temp_colors = low_call.temp_colors
        /\ ~ConsultsDraw(high_call.planet_type, high_call.temp_colors)
                => high_call.colors = low_call.colors

PalettesOfOneRecordDiffer ==
    /\ BothRendered
    /\ exoplanet = << >>
    /\ high_call.colors = TerrestrialColors(300, 0)
    /\ low_call.colors = TerrestrialColors(300, 99)
    /\ high_call.colors[1] # low_call.colors[1]

\* C30: a record whose radius is positive and at most 1.5 Earth radii is
\* classified Terrestrial, whatever its mass and its temperatures.
C30_SmallRadiusIsTerrestrial ==
    (/\ pc = "classified"
     /\ RadiusOf(exoplanet) > 0
     /\ RadiusOf(exoplanet) <= 15) => planet_type = TERRESTRIAL

C30_Witness ==
    /\ pc = "classified"
    /\ get(exoplanet, "radius") = <<15>>
    /\ get(exoplanet, "mass") = <<12000>>
    /\ get(exoplanet, "temp_calculated") = <<1400>>
    /\ planet_type = TERRESTRIAL

====
